---- MODULE Spec2Model ----
(***************************************************************************)
(* Model of k8spkgctl (cmd/k8spkgctl/build.go): the build-matrix walker    *)
(* walkBuilds with the per-job callback of main, one packaging job         *)
(* cfg.run, the version fetcher fetchVersionFromURL, and MakeCross of      *)
(* pkg/build/make as exercised by TestMakeCross.                           *)
(*                                                                         *)
(* Four specifications share the module:                                   *)
(*   Spec      the matrix walk (walkBuilds + callback of main)             *)
(*   SpecRun   one job of cfg.run against a file system and subprocesses   *)
(*   SpecFetch fetchVersionFromURL over bounded response bodies            *)
(*   SpecMake  MakeCross against the fake implementation of its test       *)
(* Each leaves the variables of the others at their idle values.           *)
(***************************************************************************)
EXTENDS Integers, Sequences, FiniteSets, TLC

VARIABLES
    \* ---- walkBuilds / main ----
    architectures,  \* the -arch list (build.go:77)
    distros,        \* the -distros list (build.go:82)
    builds,         \* the build matrix handed to walkBuilds (build.go:328-509)
    pos,            \* loop indices [a, b, d, v] of the four nested range loops
    wpc,            \* position inside the innermost loop body / "returned"
    v,              \* the loop variable v: a copy of builds[b].Versions[iv]
    events,         \* history: every resolver / callback invocation, in order
    calls,          \* history: the cfg built by the callback of main, per call
    walkErr,        \* <<>> while running or nil; <<e>> the error returned
    \* ---- cfg.run ----
    c,              \* the receiver cfg of run
    keepTmp,        \* the -keep-tmp flag (build.go:93)
    srcTree,        \* entries filepath.Walk visits, in walk order
    outKind,        \* what bin/<channel>/<distro> is on disk
    rpc,            \* position inside run
    staging,        \* the staging directory dstdir: created, exists, files
    deferred,       \* the deferred calls of run
    w,              \* the work list
    ri,             \* index of the next entry to walk / work item to render
    ops,            \* history: external operations run has performed
    placed,         \* artifacts moved to the output path
    runErr,         \* <<>> nil, <<e>> the error run returned
    \* ---- fetchVersionFromURL ----
    body,           \* the response body served for the URL
    fpc,            \* position inside fetchVersionFromURL
    fetched,        \* the returned (string, error)
    \* ---- MakeCross ----
    makeArg,        \* the version argument of MakeCross
    fake,           \* the stubbing of makefakes.FakeImpl
    mpc,            \* position inside MakeCross
    commandCalls,   \* number of Command calls made so far
    makeErr         \* <<>> nil, <<e>> the error MakeCross returned

walkVars  == <<architectures, distros, builds, pos, wpc, v, events, calls, walkErr>>
runVars   == <<c, keepTmp, srcTree, outKind, rpc, staging, deferred, w, ri, ops,
               placed, runErr>>
fetchVars == <<body, fpc, fetched>>
makeVars  == <<makeArg, fake, mpc, commandCalls, makeErr>>
vars      == <<walkVars, runVars, fetchVars, makeVars>>

(***************************************************************************)
(* Bounds of the model.                                                    *)
(***************************************************************************)
MaxArchs    == 2   \* length of the -arch list
MaxDistros  == 2   \* length of the -distros list
MaxBuilds   == 2   \* packages of the matrix that are walked
MaxVersions == 3   \* version specs (channels) per package
MaxFiles    == 2   \* entries of a package's source tree below its root
MaxBodyLen  == 4   \* characters of a fetched response body

Min(x, y) == IF x <= y THEN x ELSE y

(***************************************************************************)
(* Configuration of main.                                                  *)
(***************************************************************************)
Nil == "nil"

DefaultArchitectures == <<"amd64", "arm", "arm64", "ppc64le", "s390x">>
DefaultDistros == <<"bionic", "xenial", "trusty", "stretch", "jessie", "sid">>
revision == "00"
releaseDownloadLinkBase == "https://dl.k8s.io"
minimumCNIVersion == "0.7.5"
kubeVersionPin == "1.19.4"

ChannelStable   == "stable"
ChannelUnstable == "unstable"
ChannelNightly  == "nightly"
Channels == <<ChannelStable, ChannelUnstable, ChannelNightly>>

\* type version (build.go:46-53); a nil func field is Nil
VersionSpec(ver, ch, getv, getb) ==
    [Version |-> ver, Revision |-> revision, DownloadLinkBase |-> "",
     Channel |-> ch, GetVersion |-> getv, GetDownloadLinkBase |-> getb]

KubeGetVersion(ch) ==
    CASE ch = ChannelStable   -> "getStableKubeVersion"
      [] ch = ChannelUnstable -> "getLatestKubeVersion"
      [] ch = ChannelNightly  -> "getKubeCIVersion"

KubeGetBase(ch) ==
    IF ch = ChannelNightly THEN "getCIBuildsDownloadLinkBase"
                           ELSE "getReleaseDownloadLinkBase"

\* the version specs main gives a package for one channel
PackageVersion(pkg, ch, pinned) ==
    CASE pkg = "kubernetes-cni" -> VersionSpec(minimumCNIVersion, ch, Nil, Nil)
      [] pkg = "cri-tools"      -> VersionSpec("", ch, "getCRIToolsLatestVersion", Nil)
      [] OTHER -> IF pinned
                  THEN VersionSpec("", ch, "getSpecifiedVersion",
                                   "getReleaseDownloadLinkBase")
                  ELSE VersionSpec("", ch, KubeGetVersion(ch), KubeGetBase(ch))

MatrixPackages == <<"kubectl", "kubelet", "kubernetes-cni", "kubeadm", "cri-tools">>

\* builds of main: three channels per package, or stable only when
\* -kube-version pins the version; dl is the distros list
MainBuilds(pinned, dl) ==
    [i \in 1..Len(MatrixPackages) |->
        [Package  |-> MatrixPackages[i],
         Distros  |-> dl,
         Versions |-> [k \in 1..(IF pinned THEN 1 ELSE Len(Channels)) |->
                          PackageVersion(MatrixPackages[i], Channels[k], pinned)]]]

\* contiguous windows of a list, of length 1..n
Windows(list, n) ==
    { SubSeq(list, i, j) : i \in 1..Len(list), j \in 1..Len(list) } \
    { s \in { SubSeq(list, i, j) : i \in 1..Len(list), j \in 1..Len(list) } :
        Len(s) = 0 \/ Len(s) > n }

\* the matrix cut down to the model's bounds
BoundedBuilds(pinned, dl) ==
    { [i \in 1..Len(bw) |->
          [bw[i] EXCEPT !.Versions = SubSeq(@, 1, Min(Len(@), MaxVersions))]] :
      bw \in Windows(MainBuilds(pinned, dl), MaxBuilds) }

(***************************************************************************)
(* Resolvers (build.go:271-323).  The value a resolver returns on success. *)
(***************************************************************************)
ResolvedVersion(fn) ==
    CASE fn = "getStableKubeVersion"     -> "1.20.0"
      [] fn = "getLatestKubeVersion"     -> "1.21.0-beta.0"
      [] fn = "getKubeCIVersion"         -> "1.21.0-alpha.0.123-abcdef"
      [] fn = "getCRIToolsLatestVersion" -> "1.20.0"
      [] fn = "getSpecifiedVersion"      -> kubeVersionPin
      [] OTHER                           -> ""

ResolvedBase(fn, ver) ==
    CASE fn = "getReleaseDownloadLinkBase" ->
             releaseDownloadLinkBase \o "/v" \o ver.Version
      [] fn = "getCIBuildsDownloadLinkBase" ->
             "https://dl.k8s.io/ci-cross/v" \o "1.21.0-alpha.0.123+abcdef"
      [] OTHER -> ""

\* which resolvers can fail: the ones that fetch over the network
CanFail(fn) ==
    fn \in {"getStableKubeVersion", "getLatestKubeVersion", "getKubeCIVersion",
            "getCRIToolsLatestVersion", "getCIBuildsDownloadLinkBase"}

(***************************************************************************)
(* walkBuilds (build.go:223-254).                                          *)
(***************************************************************************)
FirstPos == [a |-> 1, b |-> 1, d |-> 1, v |-> 1]

\* the range variable of the innermost loop is a copy of the slice element
RangeCopy(p) == builds[p.b].Versions[p.v]

\* build.go:229
NeedsVersionAlways(ver) == TRUE
NeedsVersion(ver) == Len(ver.Version) = 0 /\ ver.GetVersion # Nil

\* build.go:238
NeedsBase(ver) == Len(ver.DownloadLinkBase) = 0 /\ ver.GetDownloadLinkBase # Nil

\* `if err != nil { return err }` (build.go:232, 241, 247)
IgnoreError(e) == FALSE
Failed(e) == e # <<>>

\* the four nested range loops: the position after p, or <<>> when all
\* four are exhausted
NextPosDistroInnermost(p) ==
    IF p.d < Len(builds[p.b].Distros) THEN <<[p EXCEPT !.d = @ + 1]>>
    ELSE IF p.v < Len(builds[p.b].Versions)
         THEN <<[p EXCEPT !.v = @ + 1, !.d = 1]>>
    ELSE IF p.b < Len(builds) THEN <<[a |-> p.a, b |-> p.b + 1, d |-> 1, v |-> 1]>>
    ELSE IF p.a < Len(architectures)
         THEN <<[a |-> p.a + 1, b |-> 1, d |-> 1, v |-> 1]>>
    ELSE <<>>
NextPos(p) ==
    IF p.v < Len(builds[p.b].Versions) THEN <<[p EXCEPT !.v = @ + 1]>>
    ELSE IF p.d < Len(builds[p.b].Distros)
         THEN <<[p EXCEPT !.d = @ + 1, !.v = 1]>>
    ELSE IF p.b < Len(builds) THEN <<[a |-> p.a, b |-> p.b + 1, d |-> 1, v |-> 1]>>
    ELSE IF p.a < Len(architectures)
         THEN <<[a |-> p.a + 1, b |-> 1, d |-> 1, v |-> 1]>>
    ELSE <<>>

\* the architecture mapping of the callback of main (build.go:518-524)
DebArchPrefix(arch) ==
    IF arch \in {"arm", "arm64"} THEN "armhf"
    ELSE IF arch = "ppc64le" THEN "ppc64el"
    ELSE arch
DebArch(arch) ==
    IF arch = "arm" THEN "armhf"
    ELSE IF arch = "ppc64le" THEN "ppc64el"
    ELSE arch

KubeadmDependencies ==
    "kubelet (>= 1.12.0),kubectl (>= 1.12.0),kubernetes-cni (>= 0.7.5)," \o
    "cri-tools (>= 1.12.0),${misc:Depends}"

\* the cfg the callback builds (build.go:512-527)
MakeCfg(pkg, distro, arch, ver) ==
    [Package |-> pkg, version |-> ver, DistroName |-> distro, Arch |-> arch,
     DebArch |-> DebArch(arch), Dependencies |-> KubeadmDependencies]

Event(fn, e) == [fn |-> fn, at |-> pos, err |-> e]
Err(fn) == <<[from |-> fn, at |-> pos]>>

\* `return err` / falling out of the loops with `return nil`
Return(e) ==
    /\ wpc' = "returned"
    /\ walkErr' = e

\* end of one iteration of the innermost loop body
Continue ==
    IF NextPos(pos) = <<>>
    THEN /\ Return(<<>>)
         /\ UNCHANGED <<pos, v>>
    ELSE /\ pos' = NextPos(pos)[1]
         /\ v' = RangeCopy(NextPos(pos)[1])
         /\ wpc' = "version"
         /\ UNCHANGED walkErr

\* build.go:229-235
ResolveVersion ==
    /\ wpc = "version"
    /\ IF NeedsVersion(v)
       THEN \E ok \in (IF CanFail(v.GetVersion) THEN BOOLEAN ELSE {TRUE}) :
              LET e == IF ok THEN <<>> ELSE Err("GetVersion") IN
              /\ events' = Append(events, Event("GetVersion", e))
              /\ v' = [v EXCEPT !.Version =
                          IF ok THEN ResolvedVersion(v.GetVersion) ELSE ""]
              /\ IF Failed(e) THEN Return(e)
                 ELSE wpc' = "base" /\ UNCHANGED walkErr
       ELSE /\ wpc' = "base"
            /\ UNCHANGED <<events, v, walkErr>>
    /\ UNCHANGED <<architectures, distros, builds, pos, calls>>

\* build.go:238-244
ResolveDownloadLinkBase ==
    /\ wpc = "base"
    /\ IF NeedsBase(v)
       THEN \E ok \in (IF CanFail(v.GetDownloadLinkBase) THEN BOOLEAN ELSE {TRUE}) :
              LET e == IF ok THEN <<>> ELSE Err("GetDownloadLinkBase") IN
              /\ events' = Append(events, Event("GetDownloadLinkBase", e))
              /\ v' = [v EXCEPT !.DownloadLinkBase =
                          IF ok THEN ResolvedBase(v.GetDownloadLinkBase, v) ELSE ""]
              /\ IF Failed(e) THEN Return(e)
                 ELSE wpc' = "call" /\ UNCHANGED walkErr
       ELSE /\ wpc' = "call"
            /\ UNCHANGED <<events, v, walkErr>>
    /\ UNCHANGED <<architectures, distros, builds, pos, calls>>

\* build.go:246-248 with the callback of main (build.go:511-533); the
\* result of c.run() is nil or an error (see SpecRun)
Callback ==
    /\ wpc = "call"
    /\ \E ok \in BOOLEAN :
         LET e == IF ok THEN <<>> ELSE Err("f") IN
         /\ events' = Append(events, Event("f", e))
         /\ calls' = Append(calls,
                MakeCfg(builds[pos.b].Package, builds[pos.b].Distros[pos.d],
                        architectures[pos.a], v))
         /\ IF Failed(e)
            THEN Return(e) /\ UNCHANGED <<pos, v>>
            ELSE Continue
    /\ UNCHANGED <<architectures, distros, builds>>

(***************************************************************************)
(* Idle values: what a specification gives the variables it does not use.  *)
(***************************************************************************)
IdleWalk ==
    /\ architectures = <<>> /\ distros = <<>> /\ builds = <<>>
    /\ pos = FirstPos /\ wpc = "idle" /\ v = <<>>
    /\ events = <<>> /\ calls = <<>> /\ walkErr = <<>>

IdleRun ==
    /\ c = <<>> /\ keepTmp = FALSE /\ srcTree = <<>> /\ outKind = "absent"
    /\ rpc = "idle" /\ deferred = <<>> /\ w = <<>> /\ ri = 1
    /\ staging = [created |-> FALSE, exists |-> FALSE, files |-> {}]
    /\ ops = <<>> /\ placed = {} /\ runErr = <<>>

IdleFetch == body = <<>> /\ fpc = "idle" /\ fetched = <<>>

IdleMake ==
    /\ makeArg = "" /\ fake = <<>> /\ mpc = "idle" /\ commandCalls = 0
    /\ makeErr = <<>>

(***************************************************************************)
(* Spec: main up to and including walkBuilds (build.go:325-536).           *)
(***************************************************************************)
WalkInit ==
    /\ architectures \in Windows(DefaultArchitectures, MaxArchs)
    /\ distros \in { SubSeq(DefaultDistros, 1, n) : n \in 1..MaxDistros }
    /\ \E pinned \in BOOLEAN : builds \in BoundedBuilds(pinned, distros)
    /\ pos = FirstPos
    /\ v = builds[1].Versions[1]
    /\ wpc = "version"
    /\ events = <<>>
    /\ calls = <<>>
    /\ walkErr = <<>>

Init == WalkInit /\ IdleRun /\ IdleFetch /\ IdleMake

Next ==
    \/ ResolveVersion /\ UNCHANGED <<runVars, fetchVars, makeVars>>
    \/ ResolveDownloadLinkBase /\ UNCHANGED <<runVars, fetchVars, makeVars>>
    \/ Callback /\ UNCHANGED <<runVars, fetchVars, makeVars>>

Spec == Init /\ [][Next]_vars

(***************************************************************************)
(* Properties of the walk.                                                 *)
(***************************************************************************)
\* strict lexicographic order on (a, b, d, v): architecture outermost
LexLess(p, q) ==
    \/ p.a < q.a
    \/ p.a = q.a /\ p.b < q.b
    \/ p.a = q.a /\ p.b = q.b /\ p.d < q.d
    \/ p.a = q.a /\ p.b = q.b /\ p.d = q.d /\ p.v < q.v

\* every combination of the configured architectures and the matrix
AllCombos ==
    { p \in [a : 1..Len(architectures), b : 1..Len(builds),
             d : 1..MaxDistros + 1, v : 1..MaxVersions + 1] :
        /\ p.d <= Len(builds[p.b].Distros)
        /\ p.v <= Len(builds[p.b].Versions) }

IsCall(e) == e.fn = "f"
CallEvents == SelectSeq(events, IsCall)
CalledAt == { CallEvents[i].at : i \in 1..Len(CallEvents) }
EventsAt(fn, p) == { i \in 1..Len(events) : events[i].fn = fn /\ events[i].at = p }
EventsOfSpec(fn, b, iv) ==
    { i \in 1..Len(events) :
        events[i].fn = fn /\ events[i].at.b = b /\ events[i].at.v = iv }

\* C1: the callback is invoked in the nested order architecture, package,
\* distro, version spec (each call's combination is strictly after the one
\* before it, so none is repeated), with the values of its combination,
\* without skipping any combination before the last one called, and for
\* every combination once the walk has returned nil.
C1_EveryComboOnceInOrder ==
    LET ce == CallEvents
        all == AllCombos
        called == { ce[i].at : i \in 1..Len(ce) }
    IN  /\ Len(calls) = Len(ce)
        /\ \A i \in 1..(Len(ce) - 1) : LexLess(ce[i].at, ce[i + 1].at)
        /\ \A i \in 1..Len(ce) :
             LET p == ce[i].at IN
             /\ p \in all
             /\ calls[i].Arch = architectures[p.a]
             /\ calls[i].Package = builds[p.b].Package
             /\ calls[i].DistroName = builds[p.b].Distros[p.d]
             /\ calls[i].version.Channel = builds[p.b].Versions[p.v].Channel
        /\ ce # <<>> => \A q \in all : LexLess(q, ce[Len(ce)].at) => q \in called
        /\ (wpc = "returned" /\ walkErr = <<>>) => called = all

\* a whole walk over two architectures, two packages, two distros and
\* three version specs has returned nil
C1_Witness ==
    /\ wpc = "returned" /\ walkErr = <<>>
    /\ Len(architectures) = 2 /\ Len(builds) = 2 /\ Len(distros) = 2
    /\ Len(builds[1].Versions) = 3
    /\ Len(calls) = 24

\* C2: an error of a resolver or of the callback is the last thing that
\* happens in the walk: walkBuilds has returned and returned that error,
\* no resolver or callback ran after it, and a job whose resolver failed
\* never reached the callback; an error returned is the one that occurred.
C2_FirstErrorStopsWalk ==
    /\ \A i \in 1..Len(events) :
         events[i].err # <<>> =>
           /\ i = Len(events)
           /\ wpc = "returned"
           /\ walkErr = events[i].err
           /\ events[i].fn # "f" => EventsAt("f", events[i].at) = {}
    /\ (wpc = "returned" /\ walkErr # <<>>) =>
         /\ events # <<>>
         /\ events[Len(events)].err = walkErr
    /\ wpc # "returned" => walkErr = <<>>

\* the download-base resolver of a later job failed after earlier jobs ran
C2_Witness ==
    /\ wpc = "returned"
    /\ walkErr # <<>>
    /\ walkErr[1].from = "GetDownloadLinkBase"
    /\ Len(calls) >= 2
    /\ AllCombos \ CalledAt # {}

\* C6 as claimed: over one whole walk the version resolver and the
\* download-base resolver of a given VersionSpec (package b, spec iv) are
\* each invoked at most once.
C6_ResolvedOncePerWalk ==
    \A b \in 1..Len(builds) : \A iv \in 1..Len(builds[b].Versions) :
        /\ Cardinality(EventsOfSpec("GetVersion", b, iv)) <= 1
        /\ Cardinality(EventsOfSpec("GetDownloadLinkBase", b, iv)) <= 1

\* C6 amended: resolution is lazy and once per job.  For each combination
\* the version resolver and the download-base resolver are each invoked at
\* most once (the combinations of successive invocations strictly
\* increase), only for a spec whose field is empty and whose resolver is
\* set (a literal version never has its resolver invoked), and every job
\* of such a spec is preceded, within its own iteration, by its own
\* resolver invocation: the value is kept in the loop's copy only and
\* later jobs of the same spec resolve again.
C6_ResolvedOncePerJob ==
    LET IsGetVersion(e) == e.fn = "GetVersion"
        IsGetBase(e) == e.fn = "GetDownloadLinkBase"
        gv == SelectSeq(events, IsGetVersion)
        gb == SelectSeq(events, IsGetBase)
        ce == CallEvents
        Deferred(spec) == spec.Version = "" /\ spec.GetVersion # Nil
        DeferredBase(spec) ==
            spec.DownloadLinkBase = "" /\ spec.GetDownloadLinkBase # Nil
        Before(i, fn, p) ==
            \E j \in {i - 1, i - 2} :
                j >= 1 /\ events[j].fn = fn /\ events[j].at = p
    IN  /\ \A i \in 1..(Len(gv) - 1) : LexLess(gv[i].at, gv[i + 1].at)
        /\ \A i \in 1..(Len(gb) - 1) : LexLess(gb[i].at, gb[i + 1].at)
        /\ \A i \in 1..Len(events) :
             LET p == events[i].at
                 spec == builds[p.b].Versions[p.v] IN
             /\ events[i].fn = "GetVersion" => Deferred(spec)
             /\ events[i].fn = "GetDownloadLinkBase" => DeferredBase(spec)
             /\ events[i].fn = "f" =>
                  /\ Deferred(spec) => Before(i, "GetVersion", p)
                  /\ DeferredBase(spec) => Before(i, "GetDownloadLinkBase", p)
        /\ \A i \in 1..Len(calls) :
             LET p == ce[i].at
                 spec == builds[p.b].Versions[p.v] IN
             /\ spec.Version # "" => calls[i].version.Version = spec.Version
             /\ spec.GetVersion # Nil =>
                  calls[i].version.Version = ResolvedVersion(spec.GetVersion)

\* the resolver of one spec has run for two jobs, and a job of a literal
\* spec has been called
C6_Witness ==
    /\ \E i, j \in 1..Len(events) :
         /\ i < j
         /\ events[i].fn = "GetVersion" /\ events[j].fn = "GetVersion"
         /\ events[i].at.b = events[j].at.b /\ events[i].at.v = events[j].at.v
    /\ \E i \in 1..Len(events) :
         /\ events[i].fn = "f"
         /\ builds[events[i].at.b].Versions[events[i].at.v].GetVersion = Nil

\* C7: the DebArch of every job is "armhf" for "arm", "ppc64el" for
\* "ppc64le" and the architecture itself otherwise, whatever the package,
\* distro, version or earlier jobs.
C7_DebArchMapping ==
    \A i \in 1..Len(calls) :
        /\ calls[i].Arch = "arm" => calls[i].DebArch = "armhf"
        /\ calls[i].Arch = "ppc64le" => calls[i].DebArch = "ppc64el"
        /\ calls[i].Arch \notin {"arm", "ppc64le"} => calls[i].DebArch = calls[i].Arch
        /\ i > 1 /\ calls[i].Arch = calls[i - 1].Arch =>
             calls[i].DebArch = calls[i - 1].DebArch

\* jobs for "arm" and for "arm64" have both been built, for two packages
C7_Witness ==
    /\ \E i, j, k \in 1..Len(calls) :
         /\ calls[i].Arch = "arm" /\ calls[j].Arch = "arm64"
         /\ calls[k].Arch = "arm" /\ calls[k].Package # calls[i].Package

(***************************************************************************)
(* cfg.run (build.go:131-221) and runCommand (build.go:118-129).           *)
(***************************************************************************)
\* permission bits of a source entry
Modes == {"0644", "0755"}

\* what filepath.Walk can meet below realSrcdir: a directory, a regular
\* file holding a template that parses and renders ("ok"), one with a
\* syntax error ("syntax"), one that references a field cfg does not have
\* ("missingkey"), or an entry whose lstat fails ("lstat")
Entries(name) ==
    { [name |-> name, kind |-> "dir", mode |-> m, tmpl |-> "none"] : m \in Modes }
    \cup { [name |-> name, kind |-> "file", mode |-> m, tmpl |-> t] :
             m \in Modes, t \in {"ok", "syntax", "missingkey"} }
    \cup { [name |-> name, kind |-> "lstat", mode |-> "0", tmpl |-> "none"] }

EntryName(i) == "/f" \o ToString(i)

\* the root comes first: srcfile[len(realSrcdir):] is "" for it
RootEntry == [name |-> "", kind |-> "dir", mode |-> "0755", tmpl |-> "none"]

SourceTrees ==
    UNION { { <<RootEntry>> \o t : t \in
                { f \in [1..n -> UNION { Entries(EntryName(i)) : i \in 1..n }] :
                    \A i \in 1..n : f[i].name = EntryName(i) } } :
            n \in 0..MaxFiles }

\* a resolved job as the callback of main hands it to run
RunJobs ==
    { MakeCfg("kubectl", "bionic", arch,
              [VersionSpec("1.20.0", ChannelStable, "getStableKubeVersion",
                           "getReleaseDownloadLinkBase")
                 EXCEPT !.DownloadLinkBase = "https://dl.k8s.io/v1.20.0"]) :
      arch \in {"amd64", "arm"} }

\* build.go:209-214
DstPath(cf) == "bin/" \o cf.version.Channel \o "/" \o cf.DistroName
FileName(cf) ==
    cf.Package \o "_" \o cf.version.Version \o "-" \o cf.version.Revision
               \o "_" \o cf.DebArch \o ".deb"

\* build.go:140-142: `if !*keepTmp { defer os.RemoveAll(dstdir) }`
DeferCleanupInverted(keep) == IF keep THEN <<"os.RemoveAll(dstdir)">> ELSE <<>>
DeferCleanup(keep) == IF ~keep THEN <<"os.RemoveAll(dstdir)">> ELSE <<>>

\* template.Option("missingkey=error") (build.go:166): Execute fails on a
\* field the data does not have
ExecuteKeepsMissingKeys(tmpl) == FALSE
ExecuteFails(tmpl) == tmpl = "missingkey"

\* ParseFiles (build.go:167) fails on a syntax error
ParseFails(tmpl) == tmpl = "syntax"

\* `if err != nil { return err }` after dpkg-buildpackage (build.go:205)
PackagingErrorDropped(ok) == FALSE
PackagingFailed(ok) == ~ok

\* `if err != nil { return err }` after mv (build.go:216)
MoveFailed(ok) == ~ok

Op(name, arg, ok) == [op |-> name, arg |-> arg, ok |-> ok, dir |-> staging.files]
RunError(from) == <<[from |-> from]>>

\* a return of run: the deferred calls run, then the caller has the result
RunReturn(e, st) ==
    /\ rpc' = "returned"
    /\ runErr' = e
    /\ deferred' = <<>>
    /\ staging' = IF deferred # <<>>
                  THEN [st EXCEPT !.exists = FALSE, !.files = {}]
                  ELSE st

\* build.go:136-142
TempDir ==
    /\ rpc = "TempDir"
    /\ \E ok \in BOOLEAN :
         IF ok
         THEN /\ staging' = [created |-> TRUE, exists |-> TRUE, files |-> {}]
              /\ deferred' = DeferCleanup(keepTmp)
              /\ rpc' = "EvalSymlinks"
              /\ UNCHANGED runErr
         ELSE RunReturn(RunError("TempDir"), staging)
    /\ UNCHANGED <<c, keepTmp, srcTree, outKind, w, ri, ops, placed>>

\* build.go:146-149
EvalSymlinks ==
    /\ rpc = "EvalSymlinks"
    /\ \E ok \in BOOLEAN :
         IF ok
         THEN /\ rpc' = "Walk"
              /\ UNCHANGED <<staging, deferred, runErr>>
         ELSE RunReturn(RunError("EvalSymlinks"), staging)
    /\ UNCHANGED <<c, keepTmp, srcTree, outKind, w, ri, ops, placed>>

\* where run goes once the walk is over, and once a work item is rendered
AfterWalk(work) == IF work = <<>> THEN "Package" ELSE "Render"
AfterRender(i) == IF i = Len(w) THEN "Package" ELSE "Render"

\* one visit of the walk function (build.go:151-179), and the end of Walk
\* after the last entry (build.go:179-181)
WalkVisit ==
    /\ rpc = "Walk"
    /\ LET e == srcTree[ri]
           last == ri = Len(srcTree)
           GoOn(work, st) ==
               /\ w' = work
               /\ staging' = st
               /\ ri' = IF last THEN 1 ELSE ri + 1
               /\ rpc' = IF last THEN AfterWalk(work) ELSE "Walk"
               /\ UNCHANGED <<deferred, runErr>>
           Stop(from) == RunReturn(RunError(from), staging) /\ UNCHANGED <<w, ri>>
       IN
       CASE e.kind = "lstat" -> Stop("Walk") /\ UNCHANGED ops
         [] e.kind # "lstat" /\ e.name = "" -> GoOn(w, staging) /\ UNCHANGED ops
         [] e.kind = "dir" /\ e.name # "" ->
              /\ \E ok \in BOOLEAN :
                   IF ok
                   THEN GoOn(w, [staging EXCEPT !.files = @ \cup
                            {[name |-> e.name, kind |-> "dir", mode |-> e.mode,
                              rendered |-> FALSE]}])
                   ELSE Stop("Mkdir")
              /\ UNCHANGED ops
         [] e.kind = "file" ->
              /\ ops' = Append(ops, Op("ParseFiles", e.name, ~ParseFails(e.tmpl)))
              /\ IF ParseFails(e.tmpl)
                 THEN Stop("ParseFiles")
                 ELSE GoOn(Append(w, [dst |-> e.name, t |-> e.tmpl, info |-> e.mode]),
                           staging)
    /\ UNCHANGED <<c, keepTmp, srcTree, outKind, placed>>

\* one iteration of the render loop (build.go:183-202)
Render ==
    /\ rpc = "Render"
    /\ LET wk == w[ri]
           File(mode, done) ==
               [name |-> wk.dst, kind |-> "file", mode |-> mode, rendered |-> done]
           With(f) == [staging EXCEPT !.files = @ \cup {f}]
       IN \E opened, chmodded \in BOOLEAN :
            IF ~opened
            THEN /\ chmodded
                 /\ RunReturn(RunError("OpenFile"), staging)
                 /\ UNCHANGED <<ops, ri>>
            ELSE /\ ops' = Append(ops, Op("Execute", wk.dst, ~ExecuteFails(wk.t)))
                 /\ IF ExecuteFails(wk.t)
                    THEN /\ chmodded
                         /\ RunReturn(RunError("Execute"), With(File("0", FALSE)))
                         /\ UNCHANGED ri
                    ELSE IF ~chmodded
                    THEN /\ RunReturn(RunError("Chmod"), With(File("0", TRUE)))
                         /\ UNCHANGED ri
                    ELSE /\ staging' = With(File(wk.info, TRUE))
                         /\ ri' = IF ri = Len(w) THEN 1 ELSE ri + 1
                         /\ rpc' = AfterRender(ri)
                         /\ UNCHANGED <<deferred, runErr>>
    /\ UNCHANGED <<c, keepTmp, srcTree, outKind, w, placed>>

\* build.go:204-207
Package ==
    /\ rpc = "Package"
    /\ \E ok \in BOOLEAN :
         /\ ops' = Append(ops, Op("dpkg-buildpackage", "-a" \o c.DebArch, ok))
         /\ IF PackagingFailed(ok)
            THEN RunReturn(RunError("dpkg-buildpackage"), staging)
            ELSE /\ rpc' = "MkdirAll"
                 /\ UNCHANGED <<staging, deferred, runErr>>
    /\ UNCHANGED <<c, keepTmp, srcTree, outKind, w, ri, placed>>

\* build.go:209-212: os.MkdirAll(dstPath, 0777), its result discarded.
\* It succeeds on a directory, fails on a path that is a regular file, and
\* on an absent path creates it or fails (permissions, read-only, full).
MkdirAll ==
    /\ rpc = "MkdirAll"
    /\ \E ok \in BOOLEAN :
         /\ outKind = "dir" => ok
         /\ outKind = "file" => ~ok
         /\ ops' = Append(ops, Op("MkdirAll", DstPath(c), ok))
         /\ outKind' = IF ok THEN "dir" ELSE outKind
    /\ rpc' = "Mv"
    /\ UNCHANGED <<c, keepTmp, srcTree, staging, deferred, w, ri, placed, runErr>>

\* build.go:214-220: mv /tmp/<fileName> dstPath.  Into a directory the file
\* lands inside it; onto a regular file it replaces that file; with the
\* path absent after a failed MkdirAll the parent takes no new entry and
\* mv fails.
Mv ==
    /\ rpc = "Mv"
    /\ \E ok \in BOOLEAN :
         /\ outKind = "absent" => ~ok
         /\ ops' = Append(ops, Op("mv", DstPath(c), ok))
         /\ placed' = IF ~ok THEN placed
                      ELSE IF outKind = "dir"
                           THEN placed \cup {DstPath(c) \o "/" \o FileName(c)}
                           ELSE placed \cup {DstPath(c)}
         /\ IF MoveFailed(ok)
            THEN RunReturn(RunError("mv"), staging)
            ELSE RunReturn(<<>>, staging)
    /\ UNCHANGED <<c, keepTmp, srcTree, outKind, w, ri>>

RunInit ==
    /\ c \in RunJobs
    /\ keepTmp \in BOOLEAN
    /\ srcTree \in SourceTrees
    /\ outKind \in {"absent", "dir", "file"}
    /\ rpc = "TempDir"
    /\ staging = [created |-> FALSE, exists |-> FALSE, files |-> {}]
    /\ deferred = <<>>
    /\ w = <<>>
    /\ ri = 1
    /\ ops = <<>>
    /\ placed = {}
    /\ runErr = <<>>

InitRun == RunInit /\ IdleWalk /\ IdleFetch /\ IdleMake

NextRun ==
    \/ TempDir /\ UNCHANGED <<walkVars, fetchVars, makeVars>>
    \/ EvalSymlinks /\ UNCHANGED <<walkVars, fetchVars, makeVars>>
    \/ WalkVisit /\ UNCHANGED <<walkVars, fetchVars, makeVars>>
    \/ Render /\ UNCHANGED <<walkVars, fetchVars, makeVars>>
    \/ Package /\ UNCHANGED <<walkVars, fetchVars, makeVars>>
    \/ MkdirAll /\ UNCHANGED <<walkVars, fetchVars, makeVars>>
    \/ Mv /\ UNCHANGED <<walkVars, fetchVars, makeVars>>

SpecRun == InitRun /\ [][NextRun]_vars

(***************************************************************************)
(* Properties of cfg.run.                                                  *)
(***************************************************************************)
OpsNamed(names) == { i \in 1..Len(ops) : ops[i].op \in names }
SourceFiles == { i \in 1..Len(srcTree) : srcTree[i].kind = "file" }

\* C3: when dpkg-buildpackage fails to start or exits non-zero, run has
\* returned an error, and neither the creation of the output directory
\* nor the move of the artifact was performed: the failed command is the
\* last operation of the job and nothing was placed.
C3_PackagingFailureSkipsPlacement ==
    \A i \in OpsNamed({"dpkg-buildpackage"}) :
        ~ops[i].ok =>
          /\ i = Len(ops)
          /\ rpc = "returned"
          /\ runErr = RunError("dpkg-buildpackage")
          /\ OpsNamed({"MkdirAll", "mv"}) = {}
          /\ placed = {}

\* dpkg-buildpackage failed after two files were rendered
C3_Witness ==
    /\ rpc = "returned"
    /\ Len(w) = 2
    /\ \E i \in OpsNamed({"dpkg-buildpackage"}) : ~ops[i].ok

\* C4: once run has returned, a staging directory it created no longer
\* exists when keep-tmp is unset, whatever the exit path, and is left in
\* place when keep-tmp is set.
C4_StagingRemovedUnlessKept ==
    (rpc = "returned" /\ staging.created) => (staging.exists <=> keepTmp)

\* keep-tmp unset: run rendered a file into the staging directory, placed
\* the artifact, returned nil, and the staging directory is gone
C4_Witness ==
    /\ rpc = "returned" /\ runErr = <<>> /\ placed # {}
    /\ ~keepTmp /\ staging.created /\ ~staging.exists
    /\ w # <<>>

\* C5 as claimed: a failed creation of the output directory, like a
\* failed move, makes the job return an error.
C5_PlacementFailureAborts ==
    rpc = "returned" =>
      \A i \in OpsNamed({"MkdirAll", "mv"}) : ~ops[i].ok => runErr # <<>>

\* C10: dpkg-buildpackage is invoked only with every regular file of the
\* source tree parsed and rendered in the staging directory under its
\* source permission bits; a template that fails to parse or to render
\* (a missing key included) ends the job with an error, and neither the
\* packaging command nor the move is invoked.
C10_PackagingOnlyAfterAllRendered ==
    /\ \A i \in OpsNamed({"dpkg-buildpackage"}) :
         \A k \in SourceFiles :
           /\ srcTree[k].tmpl = "ok"
           /\ [name |-> srcTree[k].name, kind |-> "file",
               mode |-> srcTree[k].mode, rendered |-> TRUE] \in ops[i].dir
           /\ \E j \in OpsNamed({"ParseFiles"}) :
                j < i /\ ops[j].arg = srcTree[k].name /\ ops[j].ok
           /\ \E j \in OpsNamed({"Execute"}) :
                j < i /\ ops[j].arg = srcTree[k].name /\ ops[j].ok
    /\ \A i \in OpsNamed({"ParseFiles", "Execute"}) :
         ~ops[i].ok =>
           /\ i = Len(ops)
           /\ rpc = "returned"
           /\ runErr # <<>>
    /\ (rpc = "returned" /\ \E k \in SourceFiles : srcTree[k].tmpl # "ok") =>
         /\ runErr # <<>>
         /\ OpsNamed({"dpkg-buildpackage", "mv"}) = {}

\* the packaging command ran over a tree of two rendered files with
\* different permission bits
C10_Witness ==
    /\ \E i \in OpsNamed({"dpkg-buildpackage"}) :
         /\ Cardinality(ops[i].dir) = 2
         /\ \E f, g \in ops[i].dir :
              f.kind = "file" /\ g.kind = "file" /\ f.mode # g.mode

(***************************************************************************)
(* fetchVersionFromURL (build.go:256-269).  A string is a sequence of      *)
(* one-character strings.                                                  *)
(***************************************************************************)
BodyChars == {"v", "1", "\n"}

Bodies == UNION { [1..n -> BodyChars] : n \in 0..MaxBodyLen }

\* strings.Replace(s, old, "", 1) for a one-character old: the first
\* occurrence of old is removed, wherever it is
ReplaceFirst(s, old) ==
    LET hits == { i \in 1..Len(s) : s[i] = old } IN
    IF hits = {} THEN s
    ELSE LET i == CHOOSE k \in hits : \A j \in hits : k <= j
         IN SubSeq(s, 1, i - 1) \o SubSeq(s, i + 1, Len(s))

\* build.go:268
StripVersion(b) == ReplaceFirst(ReplaceFirst(b, "v"), "\n")

FetchReturn(ver, e) ==
    /\ fpc' = "returned"
    /\ fetched' = [version |-> ver, err |-> e]

\* build.go:257-260
HttpGet ==
    /\ fpc = "Get"
    /\ \E ok \in BOOLEAN :
         IF ok THEN fpc' = "ReadAll" /\ UNCHANGED fetched
               ELSE FetchReturn(<<>>, <<"http.Get">>)
    /\ UNCHANGED body

\* build.go:262-268
ReadAll ==
    /\ fpc = "ReadAll"
    /\ \E ok \in BOOLEAN :
         IF ok THEN FetchReturn(StripVersion(body), <<>>)
               ELSE FetchReturn(<<>>, <<"ioutil.ReadAll">>)
    /\ UNCHANGED body

FetchInit ==
    /\ body \in Bodies
    /\ fpc = "Get"
    /\ fetched = [version |-> <<>>, err |-> <<>>]

InitFetch == FetchInit /\ IdleWalk /\ IdleRun /\ IdleMake

NextFetch ==
    \/ HttpGet /\ UNCHANGED <<walkVars, runVars, makeVars>>
    \/ ReadAll /\ UNCHANGED <<walkVars, runVars, makeVars>>

SpecFetch == InitFetch /\ [][NextFetch]_vars

\* the body with a leading "v" and a trailing newline stripped, and
\* nothing else touched
StripEnds(b) ==
    LET noV == IF b # <<>> /\ b[1] = "v" THEN Tail(b) ELSE b
    IN  IF noV # <<>> /\ noV[Len(noV)] = "\n"
        THEN SubSeq(noV, 1, Len(noV) - 1) ELSE noV

\* C8 as claimed: the version returned for a body is the body with only a
\* leading "v" and a trailing newline stripped; every other character,
\* a "v" or a newline elsewhere included, is returned unchanged.
C8_OnlyLeadingVAndTrailingNewline ==
    (fpc = "returned" /\ fetched.err = <<>>) => fetched.version = StripEnds(body)

(***************************************************************************)
(* MakeCross of pkg/build/make, as TestMakeCross drives it: the steps it   *)
(* delegates to its implementation are OpenRepo, Checkout, Command (at     *)
(* least twice) and Rename.                                                *)
(***************************************************************************)
\* the stubs a test case can set on makefakes.FakeImpl: an error for every
\* call of a method, or for the call of Command with index 1
FakeStubs ==
    [OpenRepo : BOOLEAN, Checkout : BOOLEAN, Command : BOOLEAN,
     CommandOnCall1 : BOOLEAN, Rename : BOOLEAN]

\* the delegated steps, in order
MakeCrossSteps == <<"OpenRepo", "Checkout", "Command", "Rename", "Command">>

\* what the fake returns for a call: ReturnsOnCall(i) takes precedence
\* over Returns
FakeReturnsError(step, callIndex) ==
    IF step = "Command"
    THEN IF callIndex = 1 /\ fake.CommandOnCall1 THEN TRUE ELSE fake.Command
    ELSE fake[step]

\* whether MakeCross returns the error of a failed step
StepErrorDropped(step, failed) == FALSE
StepAborts(step, failed) == failed

\* one delegated step of MakeCross
MakeStep ==
    /\ mpc \in 1..Len(MakeCrossSteps)
    /\ LET step == MakeCrossSteps[mpc]
           failed == FakeReturnsError(step, commandCalls)
       IN /\ commandCalls' = IF step = "Command" THEN commandCalls + 1
                             ELSE commandCalls
          /\ IF StepAborts(step, failed)
             THEN mpc' = 0 /\ makeErr' = <<step>>
             ELSE IF mpc = Len(MakeCrossSteps)
                  THEN mpc' = 0 /\ makeErr' = <<>>
                  ELSE mpc' = mpc + 1 /\ UNCHANGED makeErr
    /\ UNCHANGED <<makeArg, fake>>

MakeInit ==
    /\ makeArg \in {"v1.20.0", "v1.19.4"}
    /\ fake \in FakeStubs
    /\ mpc = 1
    /\ commandCalls = 0
    /\ makeErr = <<>>

InitMake == MakeInit /\ IdleWalk /\ IdleRun /\ IdleFetch

NextMake == MakeStep /\ UNCHANGED <<walkVars, runVars, fetchVars>>

SpecMake == InitMake /\ [][NextMake]_vars

\* C9: once MakeCross has returned, it returned nil exactly when no
\* delegated step was stubbed to fail: an error of OpenRepo, Checkout,
\* Rename, of every Command call or of the second Command call alone
\* makes it return a non-nil error.
C9_MakeCrossErrors ==
    mpc = 0 =>
      (makeErr = <<>> <=>
         ~(fake.OpenRepo \/ fake.Checkout \/ fake.Command
           \/ fake.CommandOnCall1 \/ fake.Rename))

\* only the second Command call fails, and MakeCross returned an error
C9_Witness ==
    /\ mpc = 0
    /\ fake = [OpenRepo |-> FALSE, Checkout |-> FALSE, Command |-> FALSE,
               CommandOnCall1 |-> TRUE, Rename |-> FALSE]
    /\ makeErr # <<>>
    /\ commandCalls = 2

====
